---- MODULE Spec2Model ----
(***************************************************************************)
(* A model of the IRR calculator front end (api_client.js, irr_ui.js) and  *)
(* of the cash-flow engine it talks to.                                    *)
(*                                                                         *)
(* DOM strings are sequences of one-character strings, so that parseInt    *)
(* and parseFloat are computed character by character as JavaScript does.  *)
(* A JavaScript number is a record [nan, v]; where the code uses           *)
(* parseFloat the value v is counted in tenths (the typed strings carry at *)
(* most one fractional digit), where it uses parseInt v is the integer.    *)
(***************************************************************************)
EXTENDS Integers, Sequences, FiniteSets, TLC

VARIABLES
    value,        \* id -> string: the .value of every text/number/slider input
    attrMin,      \* id -> string: the .min attribute of sub-range inputs and sliders
    attrMax,      \* id -> string: the .max attribute of sub-range inputs and sliders
    checkedMode,  \* type -> value of the checked "<type>_mode" radio ("" = none)
    noInterest,   \* no_interest_checkbox.checked
    hidden,       \* panel id -> whether its classList holds 'hidden'
    container,    \* what result_container.innerHTML shows
    costResult,   \* equipment_cost_result: text, colour, returned value, request sent
    calls,        \* the calculate_irr_main invocations: position, collected form, sent
    engine        \* the server-side computation of one request, year by year

vars == <<value, attrMin, attrMax, checkedMode, noInterest, hidden,
          container, costResult, calls, engine>>

-----------------------------------------------------------------------------
(* JavaScript numbers and strings                                          *)

NaN == [nan |-> TRUE, v |-> 0]
Num(n) == [nan |-> FALSE, v |-> n]
isNaN(x) == x.nan

\* x || d on numbers: NaN and 0 are falsy
OrDefault(x, d) == IF x.nan \/ x.v = 0 THEN d ELSE x.v

Digits == <<"0", "1", "2", "3", "4", "5", "6", "7", "8", "9">>
IsDigit(c) == \E i \in 1..10 : Digits[i] = c
DigitVal(c) == (CHOOSE i \in 1..10 : Digits[i] = c) - 1

RECURSIVE SkipSpaces(_, _)
SkipSpaces(s, i) ==
    IF i <= Len(s) /\ s[i] = " " THEN SkipSpaces(s, i + 1) ELSE i

\* first index >= i of s that holds no digit
RECURSIVE DigitsEnd(_, _)
DigitsEnd(s, i) ==
    IF i <= Len(s) /\ IsDigit(s[i]) THEN DigitsEnd(s, i + 1) ELSE i

\* the decimal value of s[i..j-1]
RECURSIVE DigitsValue(_, _, _)
DigitsValue(s, i, j) ==
    IF j <= i THEN 0 ELSE DigitsValue(s, i, j - 1) * 10 + DigitVal(s[j - 1])

SignAt(s, i) == IF i <= Len(s) /\ s[i] = "-" THEN 0 - 1 ELSE 1
AfterSign(s, i) == IF i <= Len(s) /\ s[i] \in {"-", "+"} THEN i + 1 ELSE i

\* parseInt(s): leading blanks, a sign, then the longest run of digits
parseInt(s) ==
    LET i == SkipSpaces(s, 1)
        j == AfterSign(s, i)
        k == DigitsEnd(s, j)
    IN IF k = j THEN NaN ELSE Num(SignAt(s, i) * DigitsValue(s, j, k))

\* parseFloat(s), in tenths: leading blanks, a sign, digits, "." and digits
parseFloat(s) ==
    LET i == SkipSpaces(s, 1)
        j == AfterSign(s, i)
        k == DigitsEnd(s, j)
        dot == k <= Len(s) /\ s[k] = "."
        m == IF dot THEN DigitsEnd(s, k + 1) ELSE k
        frac == IF dot /\ m > k + 1 THEN DigitVal(s[k + 1]) ELSE 0
    IN IF k = j /\ ~(dot /\ m > k + 1) THEN NaN
       ELSE Num(SignAt(s, i) * (DigitsValue(s, j, k) * 10 + frac))

\* String(n) for an integer n
RECURSIVE NatToStr(_)
NatToStr(n) ==
    IF n < 10 THEN <<Digits[n + 1]>>
    ELSE Append(NatToStr(n \div 10), Digits[(n % 10) + 1])
ToStr(n) == IF n < 0 THEN <<"-">> \o NatToStr(0 - n) ELSE NatToStr(n)

\* String(x) for a number that may be NaN
NumToStr(x) == IF x.nan THEN <<"N", "a", "N">> ELSE ToStr(x.v)

-----------------------------------------------------------------------------
(* The form                                                                *)

Types == {"income", "rent", "maintenance", "insurance", "recycling"}
Modes == {"yearly", "range", "kw_based"}

\* the element ids of one line item; prefix is "<type>" or "<type>_kw"
YearlyInputId(type) == type \o "_yearly_input"
TotalAmountId(type) == type \o "_total_amount"
PricePerKwId(type) == type \o "_price_per_kw"
StartYearId(prefix) == prefix \o "_start_year"
EndYearId(prefix) == prefix \o "_end_year"
StartRangeId(prefix) == prefix \o "_start_range"
EndRangeId(prefix) == prefix \o "_end_range"
KwPrefix(type) == type \o "_kw"
YearlyPanelId(type) == type \o "_yearly"
RangePanelId(type) == type \o "_range"
KwPanelId(type) == type \o "_kw_based"

Prefixes == Types \cup {KwPrefix(t) : t \in Types}
SubRangeIds ==
    UNION {{StartYearId(p), EndYearId(p), StartRangeId(p), EndRangeId(p)} :
           p \in Prefixes}
ScalarIds ==
    {"start_year", "end_year", "capacity", "price_per_kw", "profit_rate",
     "development_fee", "tax_rate", "dividend_ratio",
     "capital_reduction_period", "loan_ratio", "bank_rate", "repayment_period"}
ValueIds ==
    ScalarIds \cup SubRangeIds \cup
    UNION {{YearlyInputId(t), TotalAmountId(t), PricePerKwId(t)} : t \in Types}
PanelIds ==
    {"bank_loan_params"} \cup
    UNION {{YearlyPanelId(t), RangePanelId(t), KwPanelId(t)} : t \in Types}

\* the fallbacks of parseInt(...) || 2025 and parseInt(...) || 2030
DefaultStartYear == 2025
DefaultEndYear == 2030

\* null in a request or a response
Null == [null |-> TRUE]

\* the outcome of a function that may throw
Return(v) == [ok |-> TRUE, val |-> v, msg |-> ""]
Throw(m) == [ok |-> FALSE, val |-> Null, msg |-> m]

\* input.trim() === ''
RECURSIVE IsBlank(_)
IsBlank(s) == s = <<>> \/ (Head(s) = " " /\ IsBlank(Tail(s)))

\* input.split(':')
RECURSIVE Split(_)
Split(s) ==
    IF \A i \in 1..Len(s) : s[i] # ":" THEN <<s>>
    ELSE LET k == CHOOSE i \in 1..Len(s) :
                     s[i] = ":" /\ \A j \in 1..(i - 1) : s[j] # ":"
         IN <<SubSeq(s, 1, k - 1)>> \o Split(SubSeq(s, k + 1, Len(s)))

\* x => { const value = parseFloat(x); return isNaN(value) ? 0 : value; }
ZeroIfNaN(x) == IF isNaN(x) THEN 0 ELSE x.v

\* the yearly branch of collectDataByMode
YearlyItem(type) ==
    LET parts == Split(value[YearlyInputId(type)])
    IN  [mode |-> "yearly",
         yearly_data |-> [yearly_values |->
             [i \in 1..Len(parts) |-> ZeroIfNaN(parseFloat(parts[i]))]],
         range_data |-> Null,
         kw_based_data |-> Null]

\* the range branch of collectDataByMode
RangeItem(type) ==
    [mode |-> "range",
     yearly_data |-> Null,
     range_data |->
         [total_amount |-> OrDefault(parseFloat(value[TotalAmountId(type)]), 0),
          start_year |-> OrDefault(parseInt(value[StartYearId(type)]), DefaultStartYear),
          end_year |-> OrDefault(parseInt(value[EndYearId(type)]), DefaultEndYear)],
     kw_based_data |-> Null]

\* a kw_based branch that also fills range_data
KwItemBoth(type) ==
    [mode |-> "kw_based",
     yearly_data |-> Null,
     range_data |-> RangeItem(type).range_data,
     kw_based_data |->
         [price_per_kw |-> OrDefault(parseFloat(value[PricePerKwId(type)]), 0),
          start_year |-> OrDefault(parseInt(value[StartYearId(KwPrefix(type))]), DefaultStartYear),
          end_year |-> OrDefault(parseInt(value[EndYearId(KwPrefix(type))]), DefaultEndYear)]]

\* the kw_based branch of collectDataByMode
KwItem(type) ==
    [mode |-> "kw_based",
     yearly_data |-> Null,
     range_data |-> Null,
     kw_based_data |->
         [price_per_kw |-> OrDefault(parseFloat(value[PricePerKwId(type)]), 0),
          start_year |-> OrDefault(parseInt(value[StartYearId(KwPrefix(type))]), DefaultStartYear),
          end_year |-> OrDefault(parseInt(value[EndYearId(KwPrefix(type))]), DefaultEndYear)]]

\* collectDataByMode(type)
collectDataByMode(type) ==
    LET mode == checkedMode[type]
    IN  IF mode = "" THEN Throw("select a mode")
        ELSE IF mode = "yearly" THEN
            IF IsBlank(value[YearlyInputId(type)]) THEN Throw("enter yearly data")
            ELSE Return(YearlyItem(type))
        ELSE IF mode = "range" THEN Return(RangeItem(type))
        ELSE IF mode = "kw_based" THEN Return(KwItem(type))
        ELSE Throw("unsupported mode")

\* a loan check that lets a loan ratio of 0 through
LoanErrorLax(loanRatio, bankRate, repaymentPeriod) ==
    IF isNaN(loanRatio) \/ loanRatio.v < 0 \/ loanRatio.v > 100 * 10
        THEN "enter a valid loan ratio"
    ELSE IF isNaN(bankRate) \/ bankRate.v <= 0
        THEN "enter a valid bank rate"
    ELSE IF isNaN(repaymentPeriod) \/ repaymentPeriod.v <= 0
        THEN "enter a valid repayment period"
    ELSE ""

\* the checks of collectInterestData: the message thrown, "" when none is
LoanError(loanRatio, bankRate, repaymentPeriod) ==
    IF isNaN(loanRatio) \/ loanRatio.v <= 0 \/ loanRatio.v > 100 * 10
        THEN "enter a valid loan ratio"
    ELSE IF isNaN(bankRate) \/ bankRate.v <= 0
        THEN "enter a valid bank rate"
    ELSE IF isNaN(repaymentPeriod) \/ repaymentPeriod.v <= 0
        THEN "enter a valid repayment period"
    ELSE ""

\* collectInterestData()
collectInterestData ==
    LET loanRatio == parseFloat(value["loan_ratio"])
        bankRate == parseFloat(value["bank_rate"])
        repaymentPeriod == parseInt(value["repayment_period"])
    IN  IF noInterest THEN Return([no_interest |-> TRUE, bank_loan_data |-> Null])
        ELSE IF LoanError(loanRatio, bankRate, repaymentPeriod) # ""
            THEN Throw(LoanError(loanRatio, bankRate, repaymentPeriod))
        ELSE Return([no_interest |-> FALSE,
                     bank_loan_data |-> [loan_ratio |-> loanRatio.v,
                                         bank_rate |-> bankRate.v,
                                         repayment_period |-> repaymentPeriod.v]])

\* the first of a sequence of outcomes that threw, or 0
FirstThrow(rs) ==
    IF \A i \in 1..Len(rs) : rs[i].ok THEN 0
    ELSE CHOOSE i \in 1..Len(rs) : ~rs[i].ok /\ \A j \in 1..(i - 1) : rs[j].ok

\* a span check that lets equal years through
SpanErrorLax(start_year, end_year) ==
    IF start_year > end_year THEN "end year must exceed start year"
    ELSE IF start_year < 1900 \/ end_year < 1900 THEN "year must exceed 1900"
    ELSE ""

\* the year checks of collectFormData: the message thrown, "" when none is
SpanError(start_year, end_year) ==
    IF start_year >= end_year THEN "end year must exceed start year"
    ELSE IF start_year < 1900 \/ end_year < 1900 THEN "year must exceed 1900"
    ELSE ""

\* collectFormData()
collectFormData ==
    LET start_year == OrDefault(parseInt(value["start_year"]), DefaultStartYear)
        end_year == OrDefault(parseInt(value["end_year"]), DefaultEndYear)
        income == collectDataByMode("income")
        interest == collectInterestData
        rent == collectDataByMode("rent")
        maintenance == collectDataByMode("maintenance")
        insurance == collectDataByMode("insurance")
        recycling == collectDataByMode("recycling")
        parts == <<income, interest, rent, maintenance, insurance, recycling>>
        t == FirstThrow(parts)
    IN  IF SpanError(start_year, end_year) # "" THEN Throw(SpanError(start_year, end_year))
        ELSE IF t # 0 THEN Throw(parts[t].msg)
        ELSE Return(
            [start_year |-> start_year,
             end_year |-> end_year,
             equipment_params |->
                 [capacity |-> OrDefault(parseFloat(value["capacity"]), 0),
                  price_per_kw |-> OrDefault(parseFloat(value["price_per_kw"]), 0),
                  profit_rate |-> OrDefault(parseFloat(value["profit_rate"]), 0),
                  development_fee |-> OrDefault(parseFloat(value["development_fee"]), 0)],
             income |-> income.val,
             interest |-> interest.val,
             rent |-> rent.val,
             maintenance |-> maintenance.val,
             insurance |-> insurance.val,
             recycling |-> recycling.val,
             tax_rate |-> OrDefault(parseFloat(value["tax_rate"]), 0),
             cash_flow_params |->
                 [dividend_ratio |-> OrDefault(parseFloat(value["dividend_ratio"]), 0),
                  capital_reduction_period |->
                      OrDefault(parseInt(value["capital_reduction_period"]), 1)]])

-----------------------------------------------------------------------------
(* irr_ui.js: mode panels and sub-range sliders                            *)

\* Math.max and Math.min, NaN if either argument is
JsMax(a, b) == IF a.nan \/ b.nan THEN NaN ELSE Num(IF a.v >= b.v THEN a.v ELSE b.v)
JsMin(a, b) == IF a.nan \/ b.nan THEN NaN ELSE Num(IF a.v <= b.v THEN a.v ELSE b.v)
\* a > b on numbers, false when either is NaN
JsGt(a, b) == ~a.nan /\ ~b.nan /\ a.v > b.v
\* x || y on numbers that may be NaN
JsOr(x, y) == IF x.nan \/ x.v = 0 THEN y ELSE x

\* what a slider (input type=range) keeps of an assigned number: the number
\* brought into [min, max], min when max < min, the midpoint when not a number
SliderValue(x, lo, hi) ==
    IF hi < lo THEN lo
    ELSE IF x.nan THEN lo + ((hi - lo) \div 2)
    ELSE IF x.v < lo THEN lo
    ELSE IF x.v > hi THEN hi
    ELSE x.v

\* the DOM state the range handlers read and write
Dom == [value |-> value, min |-> attrMin, max |-> attrMax]

\* initializeRangeSliders(prefix), applied to DOM state d
initializeRangeSliders(d, prefix) ==
    LET startYear == OrDefault(parseInt(d.value["start_year"]), DefaultStartYear)
        endYear == OrDefault(parseInt(d.value["end_year"]), DefaultEndYear)
        ids == {StartRangeId(prefix), EndRangeId(prefix),
                StartYearId(prefix), EndYearId(prefix)}
    IN  [value |-> [id \in DOMAIN d.value |->
                      IF id = StartRangeId(prefix)
                          THEN ToStr(SliderValue(Num(startYear), startYear, endYear))
                      ELSE IF id = EndRangeId(prefix)
                          THEN ToStr(SliderValue(Num(endYear), startYear, endYear))
                      ELSE IF id = StartYearId(prefix) THEN ToStr(startYear)
                      ELSE IF id = EndYearId(prefix) THEN ToStr(endYear)
                      ELSE d.value[id]],
         min |-> [id \in DOMAIN d.min |-> IF id \in ids THEN ToStr(startYear) ELSE d.min[id]],
         max |-> [id \in DOMAIN d.max |-> IF id \in ids THEN ToStr(endYear) ELSE d.max[id]]]

\* the number a slider's attribute holds (0 and 100 when it is not a number)
AttrOr(s, dflt) == LET x == parseInt(s) IN IF x.nan THEN dflt ELSE x.v

\* slider.value = x
SetSlider(d, id, x) ==
    ToStr(SliderValue(x, AttrOr(d.min[id], 0), AttrOr(d.max[id], 100)))

\* updateRangeDisplay(prefix), applied to DOM state d with activeElement act
updateRangeDisplay(d, prefix, act) ==
    LET startRange == StartRangeId(prefix)
        endRange == EndRangeId(prefix)
        startVal0 == parseInt(d.value[startRange])
        endVal0 == parseInt(d.value[endRange])
        swap == JsGt(startVal0, endVal0)
        fromStart == swap /\ act = startRange
        fromEnd == swap /\ act # startRange
        startVal == IF fromEnd THEN endVal0 ELSE startVal0
        endVal == IF fromStart THEN startVal0 ELSE endVal0
    IN  [d EXCEPT !.value =
            [id \in DOMAIN d.value |->
                IF id = endRange /\ fromStart THEN SetSlider(d, endRange, startVal0)
                ELSE IF id = startRange /\ fromEnd THEN SetSlider(d, startRange, endVal0)
                ELSE IF id = StartYearId(prefix) THEN NumToStr(startVal)
                ELSE IF id = EndYearId(prefix) THEN NumToStr(endVal)
                ELSE d.value[id]]]

\* updateRangeFromInput(prefix), applied to DOM state d with activeElement act
updateRangeFromInput(d, prefix, act) ==
    LET startInput == StartYearId(prefix)
        endInput == EndYearId(prefix)
        minYear == parseInt(d.min[startInput])
        maxYear == parseInt(d.max[startInput])
        startVal0 == JsMax(minYear, JsMin(maxYear, JsOr(parseInt(d.value[startInput]), minYear)))
        endVal0 == JsMax(minYear, JsMin(maxYear, JsOr(parseInt(d.value[endInput]), maxYear)))
        swap == JsGt(startVal0, endVal0)
        fromStart == swap /\ act = startInput
        fromEnd == swap /\ act # startInput
        startVal == IF fromEnd THEN endVal0 ELSE startVal0
        endVal == IF fromStart THEN startVal0 ELSE endVal0
    IN  [d EXCEPT !.value =
            [id \in DOMAIN d.value |->
                IF id = endInput /\ fromStart THEN NumToStr(startVal0)
                ELSE IF id = startInput /\ fromEnd THEN NumToStr(endVal0)
                ELSE IF id = StartRangeId(prefix) THEN SetSlider(d, id, startVal)
                ELSE IF id = EndRangeId(prefix) THEN SetSlider(d, id, endVal)
                ELSE d.value[id]]]

\* a toggle that shows the selected panel without hiding the others first
TogglePanelsNoHide(type) ==
    [id \in DOMAIN hidden |->
        IF id = YearlyPanelId(type) /\ checkedMode'[type] = "yearly" THEN FALSE
        ELSE IF id = RangePanelId(type) /\ checkedMode'[type] = "range" THEN FALSE
        ELSE IF id = KwPanelId(type) /\ checkedMode'[type] = "kw_based" THEN FALSE
        ELSE hidden[id]]

\* the classList changes of toggle_mode(type)
TogglePanels(type) ==
    [id \in DOMAIN hidden |->
        IF id = YearlyPanelId(type) THEN checkedMode'[type] # "yearly"
        ELSE IF id = RangePanelId(type) THEN checkedMode'[type] # "range"
        ELSE IF id = KwPanelId(type) THEN checkedMode'[type] # "kw_based"
        ELSE hidden[id]]

\* the DOM state after toggle_mode(type)
ToggleSliders(type) ==
    IF checkedMode'[type] = "range" THEN initializeRangeSliders(Dom, type)
    ELSE IF checkedMode'[type] = "kw_based" THEN initializeRangeSliders(Dom, KwPrefix(type))
    ELSE Dom

\* toggle_mode(type), reading the radio that is checked when it runs
toggle_mode(type) ==
    /\ hidden' = TogglePanels(type)
    /\ value' = ToggleSliders(type).value
    /\ attrMin' = ToggleSliders(type).min
    /\ attrMax' = ToggleSliders(type).max

\* a click on the radio of mode m, whose change handler is toggle_mode(type)
SelectMode(type, m) ==
    /\ checkedMode[type] # m
    /\ checkedMode' = [checkedMode EXCEPT ![type] = m]
    /\ toggle_mode(type)
    /\ UNCHANGED <<noInterest, container, costResult, calls, engine>>

\* a click on no_interest_checkbox, whose handler is toggle_interest_mode()
toggle_interest_mode ==
    /\ noInterest' = ~noInterest
    /\ hidden' = [hidden EXCEPT !["bank_loan_params"] = noInterest']
    /\ UNCHANGED <<value, attrMin, attrMax, checkedMode, container,
                   costResult, calls, engine>>

\* the panel that holds the sub-range controls of a prefix
PanelOf(type, kw) == IF kw THEN KwPanelId(type) ELSE RangePanelId(type)
PrefixOf(type, kw) == IF kw THEN KwPrefix(type) ELSE type

\* the user drags one slider of a visible panel to year y: updateRangeDisplay
MoveSlider(type, kw, isStart, y, focused) ==
    LET prefix == PrefixOf(type, kw)
        id == IF isStart THEN StartRangeId(prefix) ELSE EndRangeId(prefix)
        act == IF focused THEN id ELSE ""
        d0 == [Dom EXCEPT !.value[id] = SetSlider(Dom, id, Num(y))]
        d1 == updateRangeDisplay(d0, prefix, act)
    IN  /\ ~hidden[PanelOf(type, kw)]
        /\ AttrOr(attrMin[id], 0) <= y
        /\ y <= AttrOr(attrMax[id], 100)
        /\ value' = d1.value
        /\ UNCHANGED <<attrMin, attrMax, checkedMode, noInterest, hidden,
                       container, costResult, calls, engine>>

\* the user types s into one year box of a visible panel: updateRangeFromInput
TypeSubRange(type, kw, isStart, s, focused) ==
    LET prefix == PrefixOf(type, kw)
        id == IF isStart THEN StartYearId(prefix) ELSE EndYearId(prefix)
        act == IF focused THEN id ELSE ""
        d0 == [Dom EXCEPT !.value[id] = s]
        d1 == updateRangeFromInput(d0, prefix, act)
    IN  /\ ~hidden[PanelOf(type, kw)]
        /\ value' = d1.value
        /\ UNCHANGED <<attrMin, attrMax, checkedMode, noInterest, hidden,
                       container, costResult, calls, engine>>

\* the user types s into a field no handler of these files listens to
EditField(id, s) ==
    /\ value[id] # s
    /\ value' = [value EXCEPT ![id] = s]
    /\ UNCHANGED <<attrMin, attrMax, checkedMode, noInterest, hidden, container, costResult, calls, engine>>

-----------------------------------------------------------------------------
(* api_client.js: rendering a response                                     *)

\* a JSON member that holds a number, holds null, or is missing
JNum(n) == [t |-> "num", v |-> n]
JNull == [t |-> "null", v |-> 0]
JAbsent == [t |-> "absent", v |-> 0]

\* text written for a figure: x.toFixed(digits) + '%', or the unable text
FixedText(x, digits) == [kind |-> "number", v |-> x.v, digits |-> digits]
UnableText == [kind |-> "unable", v |-> 0, digits |-> 0]

\* a table row: its label and the number of columns its cells cover
\* beside the row header
Row(label, cells) == [label |-> label, cells |-> cells]
RowText(label, cells, text) == [label |-> label, cells |-> cells, text |-> text]

IncomeItems ==
    <<"income", "equipment_depreciation", "interest", "rent", "maintenance",
      "insurance", "recycling", "net_cash_flow", "tax_amount", "after_tax_cash_flow">>

\* generateCashFlowTable(response)
generateCashFlowTable(response) ==
    [header |-> Len(response.years),
     rows |-> [k \in 1..Len(IncomeItems) |->
                  Row(IncomeItems[k], Len(response.cash_flows))]]

OperatingItems == <<"aftertax_net_profit", "equipment_depreciation", "operating_cash_flow">>
FinancingItems ==
    <<"loan_financing", "loan_repayment", "cash_capital_increase", "cash_dividend",
      "capital_reduction">>
SummaryItems == <<"net_cash_inflow", "opening_cash_flow", "closing_cash_flow">>

\* one row per item: a cell per statement record and the trailing '-' cell
StatementRows(items, response) ==
    [k \in 1..Len(items) |-> Row(items[k], Len(response.cash_flow_statement) + 1)]

\* a section header row: colspan extendedYears.length + 1, row header included
SectionRow(label, response) == Row(label, (Len(response.years) + 1 + 1) - 1)

\* the cost-method row: one cell per element of the series, no padding
CostMethodRow(response) ==
    Row("cost_method_cash_flows", Len(response.irr_analysis.cost_method_cash_flows))

\* an equity-method row without the '-' cell
EquityMethodRowNoPadding(response) ==
    Row("equity_method_cash_flows", Len(response.irr_analysis.equity_method_cash_flows))

\* the equity-method row: one cell per element and one '-' cell of padding
EquityMethodRow(response) ==
    Row("equity_method_cash_flows", Len(response.irr_analysis.equity_method_cash_flows) + 1)

\* an IRR row: irr !== null ? irr.toFixed(2) + '%' : the unable text
IrrRow(label, irr, response) ==
    RowText(label, Len(response.years) + 1,
            IF irr.t = "null" THEN UnableText ELSE FixedText(irr, 2))

\* generateCashFlowStatementTable(response); undefined.toFixed throws
generateCashFlowStatementTable(response) ==
    LET a == response.irr_analysis
    IN  IF a.cost_method_irr.t = "absent" \/ a.equity_method_irr.t = "absent"
        THEN Throw("TypeError")
        ELSE Return(
            [header |-> Len(response.years) + 1,
             sections |-> <<SectionRow("operating", response),
                            SectionRow("investing", response),
                            SectionRow("financing", response),
                            SectionRow("summary", response),
                            SectionRow("irr", response),
                            SectionRow("loan", response)>>,
             rows |-> StatementRows(OperatingItems, response)
                      \o StatementRows(<<"equipment_expenditure">>, response)
                      \o StatementRows(FinancingItems, response)
                      \o StatementRows(SummaryItems, response)
                      \o <<CostMethodRow(response), EquityMethodRow(response)>>
                      \o StatementRows(<<"loan_balance">>, response),
             cost_method_irr |-> IrrRow("cost_method_irr", a.cost_method_irr, response),
             equity_method_irr |-> IrrRow("equity_method_irr", a.equity_method_irr, response)])

\* response.success && response.irr !== null && !isNaN(response.irr)
HasIrr(response) == response.success /\ response.irr.t = "num"

\* displayAPIResults(response): the html it assigns, or the exception
displayAPIResults(response) ==
    LET stmt == IF Len(response.cash_flow_statement) > 0
                THEN generateCashFlowStatementTable(response)
                ELSE Return(Null)
    IN  IF ~stmt.ok THEN Throw(stmt.msg)
        ELSE Return(
            [banner |-> IF HasIrr(response) THEN FixedText(response.irr, 4) ELSE UnableText,
             error |-> IF HasIrr(response) THEN ""
                       ELSE IF response.error # "" THEN response.error
                       ELSE "unknown error",
             income_table |-> IF Len(response.cash_flows) > 0
                              THEN generateCashFlowTable(response) ELSE Null,
             statement_table |-> stmt.val])

\* result_container.innerHTML
Blank == [kind |-> "blank", msg |-> "", html |-> Null]
Loading(m) == [kind |-> "loading", msg |-> m, html |-> Null]
ErrorBlock(m) == [kind |-> "error", msg |-> m, html |-> Null]
Results(h) == [kind |-> "results", msg |-> "", html |-> h]

-----------------------------------------------------------------------------
(* The engine behind /irr/calculate: cash flow statement and IRR series    *)

\* the longest project span, in years, that the model explores
MaxSpan == 3

\* yearly after-tax profits (a loss and a profit), straight-line
\* depreciation per year, loan principals per year of span, and solver
\* results the model explores; the profits are even so that a dividend
\* ratio of 0.5 leaves whole amounts
ProfitValues == {0 - 4, 6}
DepreciationValues == {0, 2}
PrincipalValues == {1}
IrrValues == {7}

\* boundary validation of a request (positive capacity and price,
\* profit_rate in [0, 100), dividend ratio in [0, 1]); "" when it passes
EngineValidate(req) ==
    IF req.equipment_params.capacity <= 0 THEN "capacity must be positive"
    ELSE IF req.equipment_params.price_per_kw <= 0 THEN "price_per_kw must be positive"
    ELSE IF req.equipment_params.profit_rate < 0 \/ req.equipment_params.profit_rate >= 100 * 10
        THEN "profit_rate must be in [0, 100)"
    ELSE IF req.cash_flow_params.dividend_ratio < 0 \/ req.cash_flow_params.dividend_ratio > 10
        THEN "dividend_ratio must be in [0, 1]"
    ELSE ""

EngineIdle ==
    [pc |-> "idle", start_year |-> 0, n |-> 0, depreciation |-> 0, cost |-> 0,
     principal |-> 0, ratio |-> 0, period |-> 1, year |-> 1, opening |-> 0,
     retained |-> 0, balance |-> 0, cash_flows |-> <<>>, stmt |-> <<>>,
     response |-> Null]

\* the computation of a request accepted by the engine: the span and the cash
\* flow parameters come from the request, the equipment cost (dep a year) and
\* the loan principal (per a year of span) from the upstream components
EngineBegin(req, dep, per) ==
    LET n == (req.end_year - req.start_year) + 1
    IN  [EngineIdle EXCEPT
            !.pc = "building",
            !.start_year = req.start_year,
            !.n = n,
            !.depreciation = dep,
            !.cost = dep * n,
            !.principal = IF req.interest.no_interest THEN 0 ELSE per * n,
            !.ratio = req.cash_flow_params.dividend_ratio,
            !.period = req.cash_flow_params.capital_reduction_period,
            !.balance = IF req.interest.no_interest THEN 0 ELSE per * n]

\* cash_dividend: the share dividend_ratio (in tenths) of a positive profit
CashDividend(profit, ratio) == IF profit > 0 THEN 0 - ((profit * ratio) \div 10) ELSE 0

\* capital_reduction: every period-th year the retained profit is returned
CapitalReduction(year, period, retained) ==
    IF year % period = 0 /\ retained > 0 THEN 0 - retained ELSE 0

\* cash_capital_increase: what keeps the closing balance from going negative
CashCapitalIncrease(before) == IF before < 0 THEN 0 - before ELSE 0

\* closing_cash_flow = opening_cash_flow + net_cash_inflow
ClosingCashFlow(opening, net) == opening + net

\* an opening balance that restarts from the year's net inflow
NextOpeningNet(record) == record.net_cash_inflow

\* the opening balance carried into the next year
NextOpening(record) == record.closing_cash_flow

\* a statement record whose capital increase is settled before the
\* dividend and the capital reduction of the year are paid
StatementRecordEarly(e, profit, repaid) ==
    LET operating == profit + e.depreciation
        expenditure == IF e.year = 1 THEN 0 - e.cost ELSE 0
        financing == IF e.year = 1 THEN e.principal ELSE 0
        repayment == 0 - repaid
        dividend == CashDividend(profit, e.ratio)
        reduction == CapitalReduction(e.year, e.period, e.retained + profit + dividend)
        before == e.opening + operating + expenditure + financing + repayment
        increase == CashCapitalIncrease(before)
        net == operating + expenditure + financing + repayment + increase
               + dividend + reduction
    IN  [aftertax_net_profit |-> profit,
         equipment_depreciation |-> e.depreciation,
         operating_cash_flow |-> operating,
         equipment_expenditure |-> expenditure,
         loan_financing |-> financing,
         loan_repayment |-> repayment,
         cash_capital_increase |-> increase,
         cash_dividend |-> dividend,
         capital_reduction |-> reduction,
         net_cash_inflow |-> net,
         opening_cash_flow |-> e.opening,
         closing_cash_flow |-> ClosingCashFlow(e.opening, net),
         loan_balance |-> e.balance - repaid]

\* the statement record of the year e.year, with that year's after-tax
\* profit and principal repayment
StatementRecord(e, profit, repaid) ==
    LET operating == profit + e.depreciation
        expenditure == IF e.year = 1 THEN 0 - e.cost ELSE 0
        financing == IF e.year = 1 THEN e.principal ELSE 0
        repayment == 0 - repaid
        dividend == CashDividend(profit, e.ratio)
        reduction == CapitalReduction(e.year, e.period, e.retained + profit + dividend)
        before == e.opening + operating + expenditure + financing + repayment
                  + dividend + reduction
        increase == CashCapitalIncrease(before)
        net == operating + expenditure + financing + repayment + increase
               + dividend + reduction
    IN  [aftertax_net_profit |-> profit,
         equipment_depreciation |-> e.depreciation,
         operating_cash_flow |-> operating,
         equipment_expenditure |-> expenditure,
         loan_financing |-> financing,
         loan_repayment |-> repayment,
         cash_capital_increase |-> increase,
         cash_dividend |-> dividend,
         capital_reduction |-> reduction,
         net_cash_inflow |-> net,
         opening_cash_flow |-> e.opening,
         closing_cash_flow |-> ClosingCashFlow(e.opening, net),
         loan_balance |-> e.balance - repaid]

\* one year of the statement builder
EngineYear(e, profit, repaid) ==
    LET r == StatementRecord(e, profit, repaid)
        kept == e.retained + profit + r.cash_dividend
    IN  [e EXCEPT
            !.pc = IF e.year = e.n THEN "built" ELSE "building",
            !.year = e.year + 1,
            !.opening = NextOpening(r),
            !.retained = IF e.year % e.period = 0 THEN 0 ELSE kept,
            !.balance = r.loan_balance,
            !.cash_flows = Append(e.cash_flows,
                [after_tax_cash_flow |-> profit, equipment_depreciation |-> e.depreciation]),
            !.stmt = Append(e.stmt, r)]

\* a cost-method series closed by a terminal flow after the last year
CostMethodCashFlowsTerminal(e) ==
    <<0 - e.cost>> \o [k \in 1..e.n |-> e.stmt[k].operating_cash_flow]
    \o <<e.stmt[e.n].closing_cash_flow>>

\* the cost-method series: the initial outflow and one flow per project year
CostMethodCashFlows(e) ==
    <<0 - e.cost>> \o [k \in 1..e.n |-> e.stmt[k].operating_cash_flow]

\* the equity-method series: the equity invested and the flows of all
\* project years but the last
EquityMethodCashFlows(e) ==
    <<0 - (e.cost - e.principal)>>
    \o [k \in 1..(e.n - 1) |-> e.stmt[k].operating_cash_flow + e.stmt[k].loan_repayment]

\* a series with a negative and a positive element
SignChange(series) ==
    /\ \E k \in 1..Len(series) : series[k] < 0
    /\ \E k \in 1..Len(series) : series[k] > 0

\* what solve_irr may return for a series: undefined when no rate zeroes it
SolveIrr(series) == IF SignChange(series) THEN {JAbsent} \cup {JNum(x) : x \in IrrValues}
                    ELSE {JAbsent}

\* how a result leaves in JSON: undefined is dropped or written as null
Encode(x, asNull) == IF x.t = "absent" /\ asNull THEN JNull ELSE x

\* the response to a computed request
EngineResponse(e, costIrr, equityIrr, asNull) ==
    [success |-> TRUE,
     irr |-> Encode(costIrr, asNull),
     error |-> "",
     equipment_cost |-> e.cost,
     years |-> [k \in 1..e.n |-> e.start_year + (k - 1)],
     cash_flows |-> e.cash_flows,
     cash_flow_statement |-> e.stmt,
     irr_analysis |->
         [cost_method_cash_flows |-> CostMethodCashFlows(e),
          cost_method_irr |-> Encode(costIrr, asNull),
          equity_method_cash_flows |-> EquityMethodCashFlows(e),
          equity_method_irr |-> Encode(equityIrr, asNull)]]

\* the response to a request the boundary rejects
FailureResponse(m) ==
    [success |-> FALSE, irr |-> JAbsent, error |-> m, equipment_cost |-> 0,
     years |-> <<>>, cash_flows |-> <<>>, cash_flow_statement |-> <<>>,
     irr_analysis |-> Null]

-----------------------------------------------------------------------------
(* api_client.js: the two asynchronous handlers                            *)

\* what fetch and response.json() may bring back
Rejected(m) == [kind |-> "reject", msg |-> m, data |-> Null]
HttpError(m) == [kind |-> "http_error", msg |-> m, data |-> Null]
Ok(data) == [kind |-> "ok", msg |-> "", data |-> data]

\* APIClient.makeRequest: the parsed body, or the error it rethrows
makeRequest(outcome) ==
    IF outcome.kind = "ok" THEN Return(outcome.data) ELSE Throw(outcome.msg)

\* a validation that lets a profit rate of exactly 100 through
InvalidEquipmentLax(params) ==
    \/ params.capacity <= 0
    \/ params.price_per_kw <= 0
    \/ params.profit_rate < 0
    \/ params.profit_rate > 100 * 10

\* capacity <= 0 || price_per_kw <= 0 || profit_rate < 0 || profit_rate >= 100
InvalidEquipment(params) ==
    \/ params.capacity <= 0
    \/ params.price_per_kw <= 0
    \/ params.profit_rate < 0
    \/ params.profit_rate >= 100 * 10

EquipmentParams ==
    [capacity |-> OrDefault(parseFloat(value["capacity"]), 0),
     price_per_kw |-> OrDefault(parseFloat(value["price_per_kw"]), 0),
     profit_rate |-> OrDefault(parseFloat(value["profit_rate"]), 0),
     development_fee |-> OrDefault(parseFloat(value["development_fee"]), 0)]

CostIdle ==
    [pc |-> "idle", params |-> Null, sent |-> FALSE, text |-> "", color |-> "",
     branch |-> "", ret |-> JAbsent]

\* calculate_equipment_cost() up to its await: front-end validation, then
\* the POST to /irr/equipment-cost
CostStart ==
    /\ costResult.pc # "pending"
    /\ costResult' =
          IF InvalidEquipment(EquipmentParams)
          THEN [pc |-> "done", params |-> EquipmentParams, sent |-> FALSE,
                text |-> "invalid parameters", color |-> "#dc2626",
                branch |-> "invalid", ret |-> JNum(0)]
          ELSE [pc |-> "pending", params |-> EquipmentParams, sent |-> TRUE,
                text |-> costResult.text, color |-> costResult.color,
                branch |-> "", ret |-> JAbsent]
    /\ UNCHANGED <<value, attrMin, attrMax, checkedMode, noInterest, hidden, container, calls, engine>>

\* calculate_equipment_cost() after its await
CostSettle(outcome) ==
    LET r == makeRequest(outcome)
        good == r.ok /\ r.val.success
    IN  /\ costResult.pc = "pending"
        /\ costResult' =
              [costResult EXCEPT
                  !.pc = "done",
                  !.text = IF good THEN "formatted_cost" ELSE "calculation error",
                  !.color = IF good THEN "#1e40af" ELSE "#dc2626",
                  !.branch = IF good THEN "success" ELSE "catch",
                  !.ret = IF good THEN JNum(r.val.equipment_cost) ELSE JNum(0)]
        /\ UNCHANGED <<value, attrMin, attrMax, checkedMode, noInterest, hidden, container, calls, engine>>

\* the answers of /irr/equipment-cost the model explores
CostOutcomes ==
    {Rejected("Failed to fetch"), HttpError("HTTP 500"),
     Ok([success |-> FALSE, equipment_cost |-> 0]),
     Ok([success |-> TRUE, equipment_cost |-> 0]),
     Ok([success |-> TRUE, equipment_cost |-> 7222222])}

\* no continuation of an await on an already settled promise is queued:
\* only then can a user event be handled
NoMicrotask == \A i \in 1..Len(calls) : calls[i].pc # "collected"
Settled == \A i \in 1..Len(calls) : calls[i].pc = "done"

\* calculate_irr_main() up to its first await: the loading text, and
\* collectFormData() run to its return or throw
IrrStart ==
    /\ Settled
    /\ container' = Loading("collecting")
    /\ calls' = <<[pc |-> "collected", form |-> collectFormData, sent |-> FALSE]>>
    /\ UNCHANGED <<value, attrMin, attrMax, checkedMode, noInterest, hidden, costResult, engine>>

\* calculate_irr_main() after await collectFormData(): the catch block, or
\* the calculating text and the POST to /irr/calculate
IrrResume(i) ==
    /\ calls[i].pc = "collected"
    /\ IF calls[i].form.ok
       THEN /\ container' = Loading("calculating")
            /\ calls' = [calls EXCEPT ![i].pc = "calculating", ![i].sent = TRUE]
       ELSE /\ container' = ErrorBlock(calls[i].form.msg)
            /\ calls' = [calls EXCEPT ![i].pc = "done"]
    /\ UNCHANGED <<value, attrMin, attrMax, checkedMode, noInterest, hidden, costResult, engine>>

\* a handler without the catch block: a failure leaves the loading text
IrrShownNoCatch(outcome) ==
    LET r == makeRequest(outcome)
        shown == IF r.ok THEN displayAPIResults(r.val) ELSE r
    IN  IF shown.ok THEN Results(shown.val) ELSE Loading("calculating")

\* what calculate_irr_main() leaves in the container once the POST settled
IrrShown(outcome) ==
    LET r == makeRequest(outcome)
        shown == IF r.ok THEN displayAPIResults(r.val) ELSE r
    IN  IF shown.ok THEN Results(shown.val) ELSE ErrorBlock(shown.msg)

\* calculate_irr_main() after await apiClient.calculateIRR(requestData);
\* requestData goes with the invocation that returns
IrrSettle(i, outcome) ==
    /\ calls[i].pc = "calculating"
    /\ container' = IrrShown(outcome)
    /\ calls' = [calls EXCEPT ![i].pc = "done", ![i].form.val = Null]
    /\ UNCHANGED <<value, attrMin, attrMax, checkedMode, noInterest, hidden, costResult>>

\* the engine run with the same profit every year and no loan
RECURSIVE EngineRun(_)
EngineRun(e) == IF e.pc = "built" THEN e ELSE EngineRun(EngineYear(e, 6, 0))

\* the answers of /irr/calculate explored where the engine is not run
\* year by year
ServerOutcomes(req) ==
    {Rejected("Failed to fetch"), HttpError("HTTP 500"),
     Ok(IF EngineValidate(req) # "" THEN FailureResponse(EngineValidate(req))
        ELSE EngineResponse(EngineRun(EngineBegin(req, 2, 0)), JNum(7), JNum(7), TRUE))}

\* the POST of invocation i settles with one of the explored answers
IrrAnswered(i) ==
    /\ i \in 1..Len(calls)
    /\ calls[i].pc = "calculating"
    /\ \E outcome \in ServerOutcomes(calls[i].form.val) : IrrSettle(i, outcome)
    /\ UNCHANGED engine

-----------------------------------------------------------------------------
(* The page as loaded                                                      *)

InitialValue(id) ==
    IF id = "start_year" THEN ToStr(2025)
    ELSE IF id = "end_year" THEN ToStr(2027)
    ELSE IF id = "capacity" THEN ToStr(100)
    ELSE IF id = "price_per_kw" THEN ToStr(20000)
    ELSE IF id = "profit_rate" THEN ToStr(10)
    ELSE IF id = "development_fee" THEN ToStr(50000)
    ELSE IF id = "tax_rate" THEN ToStr(20)
    ELSE IF id = "dividend_ratio" THEN <<"0", ".", "5">>
    ELSE IF id = "capital_reduction_period" THEN ToStr(2)
    ELSE IF id = "loan_ratio" THEN ToStr(70)
    ELSE IF id = "bank_rate" THEN <<"3", ".", "5">>
    ELSE IF id = "repayment_period" THEN ToStr(2)
    ELSE IF \E t \in Types : id = YearlyInputId(t) THEN <<"6", ":", "6", ":", "6">>
    ELSE IF \E t \in Types : id = TotalAmountId(t) THEN ToStr(300)
    ELSE IF \E t \in Types : id = PricePerKwId(t) THEN ToStr(5)
    ELSE IF \E q \in Prefixes : id \in {StartYearId(q), StartRangeId(q)} THEN ToStr(2025)
    ELSE ToStr(2027)

\* the page with the given radios checked: the yearly panel is the one shown
InitPage(checked) ==
    /\ value = [id \in ValueIds |-> InitialValue(id)]
    /\ attrMin = [id \in SubRangeIds |-> ToStr(2025)]
    /\ attrMax = [id \in SubRangeIds |-> ToStr(2027)]
    /\ checkedMode = checked
    /\ noInterest = TRUE
    /\ hidden = [id \in PanelIds |-> \A t \in Types : id # YearlyPanelId(t)]
    /\ container = Blank
    /\ costResult = CostIdle
    /\ calls = <<>>
    /\ engine = EngineIdle

Init == InitPage([t \in Types |-> "yearly"])

\* a user event, handled when the event loop has no continuation to run
User(A) == NoMicrotask /\ A

\* a user event of a user who waits for the answer before going on
Patient(A) == Settled /\ A

\* the continuations of calculate_irr_main where the engine is an answer
IrrSteps ==
    \/ User(IrrStart)
    \/ \E i \in 1..Len(calls) : IrrResume(i)
    \/ \E i \in 1..Len(calls) : IrrAnswered(i)

-----------------------------------------------------------------------------
(* Project span: the year boxes and calculate_irr_main                     *)

StartYearInputs == {<<>>, <<"0">>, <<"1", "8", "9", "9">>, <<"1", "9", "0", "0">>, <<"2", "0", "2", "5">>, <<"2", "0", "3", "1">>}
EndYearInputs == {<<>>, <<"a", "b", "c">>, <<"1", "8", "9", "9">>, <<"1", "9", "0", "0">>, <<"1", "9", "0", "1">>, <<"2", "0", "2", "5">>}

EditStartYear == \E s \in StartYearInputs : User(EditField("start_year", s))
EditEndYear == \E s \in EndYearInputs : User(EditField("end_year", s))

NextSpan == EditStartYear \/ EditEndYear \/ IrrSteps
SpecSpan == Init /\ [][NextSpan]_vars

\* the years the form holds, as collectFormData reads them
FormStartYear == OrDefault(parseInt(value["start_year"]), DefaultStartYear)
FormEndYear == OrDefault(parseInt(value["end_year"]), DefaultEndYear)
ValidSpan(start_year, end_year) ==
    start_year < end_year /\ start_year >= 1900 /\ end_year >= 1900

\* C4: collectFormData returns a request only when start_year < end_year and
\* both years are at least 1900; on any other form it throws, and the
\* invocation then sends no request and ends showing the error message.
C4_SpanValidated ==
    /\ collectFormData.ok => ValidSpan(FormStartYear, FormEndYear)
    /\ ~ValidSpan(FormStartYear, FormEndYear) =>
          /\ ~collectFormData.ok
          /\ collectFormData.msg \in {"end year must exceed start year",
                                      "year must exceed 1900"}
    /\ \A i \in 1..Len(calls) :
          /\ calls[i].form.ok /\ calls[i].pc # "done" =>
                ValidSpan(calls[i].form.val.start_year, calls[i].form.val.end_year)
          /\ ~calls[i].form.ok =>
                /\ ~calls[i].sent
                /\ calls[i].pc = "done" => container = ErrorBlock(calls[i].form.msg)

\* an invocation that threw on equal years has ended on the error block
C4_Witness ==
    \E i \in 1..Len(calls) :
        /\ calls[i].pc = "done"
        /\ ~calls[i].form.ok
        /\ calls[i].form.msg = "end year must exceed start year"
        /\ container.kind = "error"

-----------------------------------------------------------------------------
(* Equipment parameters: the four boxes and the two handlers               *)

CapacityInputs == {<<"0">>, <<"-", "5">>, <<"0", ".", "5">>, <<"1", "0", "0">>}
PriceInputs == {<<"0">>, <<"a", "b", "c">>, <<"2", "0", "0", "0", "0">>}
ProfitRateInputs == {<<"-", "1">>, <<"0">>, <<"1", "0">>, <<"9", "9", ".", "9">>, <<"1", "0", "0">>}

EditCapacity == \E s \in CapacityInputs : User(EditField("capacity", s))
EditPrice == \E s \in PriceInputs : User(EditField("price_per_kw", s))
EditProfitRate == \E s \in ProfitRateInputs : User(EditField("profit_rate", s))

NextEquipment == EditCapacity \/ EditPrice \/ EditProfitRate \/ IrrSteps
SpecEquipment == Init /\ [][NextEquipment]_vars

CostSteps == User(CostStart) \/ \E outcome \in CostOutcomes : CostSettle(outcome)

NextCost == EditCapacity \/ EditPrice \/ EditProfitRate \/ CostSteps
SpecCost == Init /\ [][NextCost]_vars

\* capacity > 0, price_per_kw > 0 and 0 <= profit_rate < 100, in tenths
ValidEquipment(params) ==
    /\ params.capacity > 0
    /\ params.price_per_kw > 0
    /\ params.profit_rate >= 0
    /\ params.profit_rate < 1000

\* C1: calculate_irr_main sends a request to /irr/calculate only if
\* capacity > 0, price_per_kw > 0 and 0 <= profit_rate < 100; a form that
\* violates this is reported as an error in the result container and no
\* request is sent.
C1_EquipmentValidated ==
    \A i \in 1..Len(calls) :
        /\ calls[i].sent /\ calls[i].pc = "calculating" =>
              ValidEquipment(calls[i].form.val.equipment_params)
        /\ calls[i].pc = "done" /\ ~calls[i].form.ok => container.kind = "error"

\* C7: with capacity <= 0, price_per_kw <= 0, profit_rate < 0 or
\* profit_rate >= 100, calculate_equipment_cost sends no request, shows the
\* invalid-parameter message and returns 0; it returns
\* response.equipment_cost only when the parameters are valid and the API
\* reports success.
C7_EquipmentCostRejects ==
    /\ costResult.pc # "idle" /\ ~ValidEquipment(costResult.params) =>
          /\ costResult.pc = "done"
          /\ ~costResult.sent
          /\ costResult.text = "invalid parameters"
          /\ costResult.ret = JNum(0)
    /\ costResult.sent => ValidEquipment(costResult.params)
    /\ costResult.pc = "done" /\ costResult.branch # "success" => costResult.ret = JNum(0)
    /\ costResult.branch = "success" =>
          /\ ValidEquipment(costResult.params)
          /\ costResult.sent
          /\ costResult.text = "formatted_cost"

\* a call with profit_rate 100 has returned 0 without a request
C7_Witness ==
    /\ costResult.pc = "done"
    /\ costResult.params # Null
    /\ costResult.params.profit_rate = 1000
    /\ costResult.params.capacity > 0
    /\ costResult.params.price_per_kw > 0
    /\ ~costResult.sent
    /\ costResult.ret = JNum(0)

-----------------------------------------------------------------------------
(* Financing: the no-interest checkbox and the three loan boxes            *)

LoanRatioInputs == {<<>>, <<"0">>, <<"0", ".", "5">>, <<"7", "0">>, <<"1", "0", "0">>, <<"1", "0", "0", ".", "5">>}
BankRateInputs == {<<>>, <<"0">>, <<"-", "1">>, <<"3", ".", "5">>}
RepaymentInputs == {<<>>, <<"0">>, <<"-", "3">>, <<"2">>, <<"2", ".", "5">>}

EditLoanRatio == \E s \in LoanRatioInputs : User(EditField("loan_ratio", s))
EditBankRate == \E s \in BankRateInputs : User(EditField("bank_rate", s))
EditRepayment == \E s \in RepaymentInputs : User(EditField("repayment_period", s))
ClickNoInterest == User(toggle_interest_mode)

NextInterest ==
    EditLoanRatio \/ EditBankRate \/ EditRepayment \/ ClickNoInterest \/ IrrSteps
SpecInterest == Init /\ [][NextInterest]_vars

\* NoInterest, or BankLoan with 0 < loan_ratio <= 100 (in tenths),
\* bank_rate > 0 and a positive whole repayment_period
WellFormedInterest(interest) ==
    \/ interest = [no_interest |-> TRUE, bank_loan_data |-> Null]
    \/ /\ interest.no_interest = FALSE
       /\ interest.bank_loan_data # Null
       /\ interest.bank_loan_data.loan_ratio > 0
       /\ interest.bank_loan_data.loan_ratio <= 1000
       /\ interest.bank_loan_data.bank_rate > 0
       /\ interest.bank_loan_data.repayment_period \in Nat \ {0}

LoanMessages ==
    {"enter a valid loan ratio", "enter a valid bank rate",
     "enter a valid repayment period"}

\* C5: the interest field collectInterestData returns is either
\* {no_interest: true, bank_loan_data: null} or {no_interest: false,
\* bank_loan_data} with 0 < loan_ratio <= 100, bank_rate > 0 and a positive
\* integer repayment_period; on any other input it throws, and no request
\* is sent.
C5_InterestWellFormed ==
    /\ collectInterestData.ok => WellFormedInterest(collectInterestData.val)
    /\ ~collectInterestData.ok =>
          /\ collectInterestData.msg \in LoanMessages
          /\ ~collectFormData.ok
    /\ \A i \in 1..Len(calls) :
          /\ calls[i].form.ok /\ calls[i].pc # "done" =>
                WellFormedInterest(calls[i].form.val.interest)
          /\ calls[i].form.msg \in LoanMessages => ~calls[i].sent

\* a bank loan at the upper end of the ratio range has been sent
C5_Witness ==
    \E i \in 1..Len(calls) :
        /\ calls[i].pc = "calculating"
        /\ calls[i].form.val.interest.no_interest = FALSE
        /\ calls[i].form.val.interest.bank_loan_data.loan_ratio = 1000

-----------------------------------------------------------------------------
(* Line items: the mode radios and the yearly box                          *)

\* the page may load with a mode radio unchecked
InitModes == \E checked \in [Types -> {"", "yearly"}] : InitPage(checked)

\* the radio values: the three modes and one the code does not know
RadioValues == Modes \cup {"custom"}
YearlyInputs == {<<>>, <<" ">>, <<"6", ":", "x", ":", "1", ".", "5">>}

\* the line items whose radios the user clicks here: the first and the last
\* that collectFormData reads, and one between
ClickedTypes == {"income", "insurance", "recycling"}

ClickMode == \E t \in ClickedTypes, m \in RadioValues : Patient(SelectMode(t, m))
EditYearly == \E s \in YearlyInputs : Patient(EditField(YearlyInputId("income"), s))

NextModes == ClickMode \/ EditYearly \/ IrrSteps
SpecModes == InitModes /\ [][NextModes]_vars

NonNull(item) ==
    {k \in {"yearly_data", "range_data", "kw_based_data"} : item[k] # Null}

\* a line item tagged with one of the three modes that fills exactly the
\* member of its mode
WellFormedItem(item) ==
    /\ item.mode \in {"yearly", "range", "kw_based"}
    /\ NonNull(item) = {item.mode \o "_data"}

\* C6: for each of income, rent, maintenance, insurance and recycling,
\* collectDataByMode returns an object whose mode is yearly, range or
\* kw_based and in which exactly the member matching the mode is non-null;
\* with no mode selected or an unknown mode it throws.
C6_LineItemWellFormed ==
    /\ \A t \in Types :
          /\ collectDataByMode(t).ok => WellFormedItem(collectDataByMode(t).val)
          /\ checkedMode[t] \notin {"yearly", "range", "kw_based"} =>
                /\ ~collectDataByMode(t).ok
                /\ ~collectFormData.ok
    /\ \A i \in 1..Len(calls) :
          calls[i].form.ok /\ calls[i].pc # "done" =>
              \A t \in Types : WellFormedItem(calls[i].form.val[t])

\* a request is in flight whose line items use all three modes
C6_Witness ==
    \E i \in 1..Len(calls) :
        /\ calls[i].pc = "calculating"
        /\ calls[i].form.val.income.mode = "kw_based"
        /\ calls[i].form.val.insurance.mode = "range"
        /\ calls[i].form.val.recycling.mode = "yearly"

-----------------------------------------------------------------------------
(* Sub-ranges: the project years, one line item's radios, sliders, boxes   *)

\* the line item whose panels the user works in here
UiTypes == {"income"}

\* the project years the user types (start and end may come out equal)
UiStartYears == {<<"2", "0", "2", "5">>, <<"2", "0", "2", "6">>}
UiEndYears == {<<"2", "0", "2", "6">>, <<"2", "0", "2", "7">>}
\* what the user types into a sub-range year box: a year before the
\* project, and its last year
SubRangeInputs == {<<"2", "0", "2", "4">>, <<"2", "0", "2", "7">>}

EditUiStartYear == \E s \in UiStartYears : Patient(EditField("start_year", s))
EditUiEndYear == \E s \in UiEndYears : Patient(EditField("end_year", s))
ClickUiMode == \E t \in UiTypes, m \in Modes : Patient(SelectMode(t, m))
\* the sliders and year boxes worked are those of the range panel; focused
\* says whether the control is document.activeElement when its handler runs
DragSlider ==
    \E t \in UiTypes, isStart \in BOOLEAN, focused \in BOOLEAN :
        \E y \in DefaultStartYear..(DefaultStartYear + 2) :
            Patient(MoveSlider(t, FALSE, isStart, y, focused))
TypeYear ==
    \E t \in UiTypes, isStart \in BOOLEAN, focused \in BOOLEAN :
        \E s \in SubRangeInputs : Patient(TypeSubRange(t, FALSE, isStart, s, focused))

\* calculate_irr_main up to its POST; the answer is not awaited here
IrrCollect == User(IrrStart) \/ \E i \in 1..Len(calls) : IrrResume(i)

NextUi ==
    EditUiStartYear \/ EditUiEndYear \/ ClickUiMode \/ DragSlider \/ TypeYear
    \/ IrrCollect
SpecUi == Init /\ [][NextUi]_vars

\* the years of a range or kw_based line item, <<>> for a yearly one
SubRangeOf(item) ==
    IF item.mode = "range" THEN <<item.range_data.start_year, item.range_data.end_year>>
    ELSE IF item.mode = "kw_based"
        THEN <<item.kw_based_data.start_year, item.kw_based_data.end_year>>
    ELSE <<>>

Contained(req, item) ==
    SubRangeOf(item) # <<>> =>
        /\ req.start_year <= SubRangeOf(item)[1]
        /\ SubRangeOf(item)[1] <= SubRangeOf(item)[2]
        /\ SubRangeOf(item)[2] <= req.end_year

\* C2: after any sequence of UI operations, every range or kw_based line
\* item of a request has project start_year <= sub-range start_year <=
\* sub-range end_year <= project end_year.
C2_SubRangeContained ==
    \A i \in 1..Len(calls) :
        calls[i].pc = "calculating" =>
            \A t \in Types : Contained(calls[i].form.val, calls[i].form.val[t])

-----------------------------------------------------------------------------
(* The engine at work: a request computed year by year, then rendered      *)

\* the request of invocation i reaches the engine and fails its validation
EngineReject(i) ==
    /\ calls[i].pc = "calculating"
    /\ engine.pc = "idle"
    /\ EngineValidate(calls[i].form.val) # ""
    /\ engine' = [EngineIdle EXCEPT
                     !.pc = "answered",
                     !.response = FailureResponse(EngineValidate(calls[i].form.val))]
    /\ UNCHANGED <<value, attrMin, attrMax, checkedMode, noInterest, hidden,
                   container, costResult, calls>>

\* the request of invocation i reaches the engine and is accepted
EngineAccept(i, dep, per) ==
    /\ calls[i].pc = "calculating"
    /\ engine.pc = "idle"
    /\ EngineValidate(calls[i].form.val) = ""
    /\ engine' = EngineBegin(calls[i].form.val, dep, per)
    /\ UNCHANGED <<value, attrMin, attrMax, checkedMode, noInterest, hidden,
                   container, costResult, calls>>

\* the statement builder takes the next year: its profit, and a principal
\* repayment of nothing or of the whole balance
EngineBuildYear(profit, repaid) ==
    /\ engine.pc = "building"
    /\ repaid \in {0, engine.balance}
    /\ engine' = EngineYear(engine, profit, repaid)
    /\ UNCHANGED <<value, attrMin, attrMax, checkedMode, noInterest, hidden,
                   container, costResult, calls>>

\* the solver runs on both series and the response is written
EngineSolve(costIrr, equityIrr, asNull) ==
    /\ engine.pc = "built"
    /\ costIrr \in SolveIrr(CostMethodCashFlows(engine))
    /\ equityIrr \in SolveIrr(EquityMethodCashFlows(engine))
    /\ engine' = [engine EXCEPT
                     !.pc = "answered",
                     !.response = EngineResponse(engine, costIrr, equityIrr, asNull)]
    /\ UNCHANGED <<value, attrMin, attrMax, checkedMode, noInterest, hidden,
                   container, costResult, calls>>

\* the POST of invocation i settles with the engine's response
IrrAnswerEngine(i) ==
    /\ engine.pc = "answered"
    /\ IrrSettle(i, Ok(engine.response))
    /\ engine' = [engine EXCEPT !.pc = "delivered"]

\* the engine drops the request-scoped state of a delivered response
EngineRelease ==
    /\ engine.pc = "delivered"
    /\ engine' = EngineIdle
    /\ UNCHANGED <<value, attrMin, attrMax, checkedMode, noInterest, hidden,
                   container, costResult, calls>>

\* a user event handled between two requests
Between(A) == engine.pc = "idle" /\ Patient(A)

EngineEndYears == {ToStr(DefaultStartYear + k) : k \in 1..(MaxSpan - 1)}
DividendRatioInputs == {<<"0", ".", "5">>, <<"1">>, <<"2">>}
ReductionPeriodInputs == {<<"1">>, <<"2">>}

EditEngineEndYear == \E s \in EngineEndYears : Between(EditField("end_year", s))
EditDividendRatio == \E s \in DividendRatioInputs : Between(EditField("dividend_ratio", s))
EditReductionPeriod ==
    \E s \in ReductionPeriodInputs : Between(EditField("capital_reduction_period", s))
ClickNoInterestBetween == Between(toggle_interest_mode)

\* a calculation started between two requests, and its collecting step
IrrCollectBetween ==
    \/ engine.pc = "idle" /\ User(IrrStart)
    \/ \E i \in 1..Len(calls) : IrrResume(i)

EngineSteps ==
    \/ \E i \in 1..Len(calls) : EngineReject(i)
    \/ \E i \in 1..Len(calls), dep \in DepreciationValues, per \in PrincipalValues :
          EngineAccept(i, dep, per)
    \/ \E profit \in ProfitValues, repaid \in 0..MaxSpan : EngineBuildYear(profit, repaid)
    \/ \E costIrr, equityIrr \in {JAbsent} \cup {JNum(x) : x \in IrrValues},
          asNull \in BOOLEAN : EngineSolve(costIrr, equityIrr, asNull)
    \/ \E i \in 1..Len(calls) : IrrAnswerEngine(i)
    \/ EngineRelease

NextEngine ==
    EditEngineEndYear \/ EditDividendRatio \/ EditReductionPeriod
    \/ ClickNoInterestBetween \/ IrrCollectBetween \/ EngineSteps
SpecEngine == Init /\ [][NextEngine]_vars

-----------------------------------------------------------------------------
(* Claims on the engine's response and its rendering                       *)

\* the response the engine has written or delivered
Answered == engine.pc \in {"answered", "delivered"}
Computed == Answered /\ engine.response.success

\* a figure of a response that is null or absent
NoNumber(x) == x.t # "num"

\* C3: whenever the delivered response holds no number for irr, for
\* irr_analysis.cost_method_irr or for irr_analysis.equity_method_irr (null
\* or absent), displayAPIResults has completed and the container shows the
\* unable-to-compute text for that figure
C3_UnableRendered ==
    engine.pc = "delivered" =>
        LET r == engine.response
            a == r.irr_analysis
        IN  /\ NoNumber(r.irr) =>
                  /\ container.kind = "results"
                  /\ container.html.banner = UnableText
            /\ a # Null /\ NoNumber(a.cost_method_irr) =>
                  /\ container.kind = "results"
                  /\ container.html.statement_table.cost_method_irr.text = UnableText
            /\ a # Null /\ NoNumber(a.equity_method_irr) =>
                  /\ container.kind = "results"
                  /\ container.html.statement_table.equity_method_irr.text = UnableText

C10_BalanceChained ==
    LET st == engine.stmt
    IN  /\ Len(st) > 0 => st[1].opening_cash_flow = 0
        /\ \A k \in 1..Len(st) :
              st[k].closing_cash_flow = st[k].opening_cash_flow + st[k].net_cash_inflow
        /\ \A k \in 1..(Len(st) - 1) :
              st[k].closing_cash_flow = st[k + 1].opening_cash_flow

\* a statement of the longest span with a balance carried between years
C10_Witness ==
    /\ engine.pc = "built"
    /\ Len(engine.stmt) = MaxSpan
    /\ \E k \in 1..(MaxSpan - 1) :
          /\ engine.stmt[k].closing_cash_flow > 0
          /\ engine.stmt[k + 1].net_cash_inflow # 0

\* C11: in every year of the statement the closing balance, taken after the
\* dividend, the loan repayment and the capital reduction of that year, is
\* not negative, and the capital increase is non-zero only in a year whose
\* balance would be negative without it
C11_NoNegativeBalance ==
    \A k \in 1..Len(engine.stmt) :
        LET r == engine.stmt[k]
        IN  /\ r.closing_cash_flow >= 0
            /\ r.cash_capital_increase >= 0
            /\ r.cash_capital_increase # 0 =>
                  r.closing_cash_flow - r.cash_capital_increase < 0

\* a statement with a year rescued by a capital increase and a later year
\* that pays a dividend and a capital reduction out of its own cash
C11_Witness ==
    /\ engine.pc = "built"
    /\ \E j, k \in 1..Len(engine.stmt) :
          /\ j < k
          /\ engine.stmt[j].cash_capital_increase > 0
          /\ engine.stmt[j].closing_cash_flow = 0
          /\ engine.stmt[k].cash_dividend < 0
          /\ engine.stmt[k].capital_reduction < 0
          /\ engine.stmt[k].cash_capital_increase = 0

-----------------------------------------------------------------------------
(* The engine's temporal distributor on the RangeTotal items of a request  *)

\* an amount per year kept as a fraction, so that total / years is exact
Zero == [num |-> 0, den |-> 1]

\* the two ways to count sub_range_years in total_amount / max(1,
\* sub_range_years): the years of the item's own sub-range, or the years of
\* the sub-range that fall inside the project span
DistributeReadings == {"own", "covered"}

\* the first and last project year covered by a sub-range
CoveredFrom(range, start_year) ==
    IF range.start_year > start_year THEN range.start_year ELSE start_year
CoveredTo(range, end_year) ==
    IF range.end_year < end_year THEN range.end_year ELSE end_year

\* a distribution that divides by the span length whatever the sub-range
DistributeRangeBySpan(range, start_year, end_year, reading) ==
    LET lo == CoveredFrom(range, start_year)
        hi == CoveredTo(range, end_year)
        per == [num |-> range.total_amount, den |-> (end_year - start_year) + 1]
    IN  [k \in 1..((end_year - start_year) + 1) |->
            IF lo <= start_year + (k - 1) /\ start_year + (k - 1) <= hi THEN per ELSE Zero]

\* distribute(RangeTotal, span): total_amount / max(1, sub_range_years) in
\* the years inside [max(start_year, span.start), min(end_year, span.end)],
\* 0 elsewhere
DistributeRange(range, start_year, end_year, reading) ==
    LET lo == CoveredFrom(range, start_year)
        hi == CoveredTo(range, end_year)
        sub_range_years == IF reading = "own"
                           THEN (range.end_year - range.start_year) + 1
                           ELSE (hi - lo) + 1
        per == [num |-> range.total_amount, den |-> IF sub_range_years > 1 THEN sub_range_years ELSE 1]
    IN  [k \in 1..((end_year - start_year) + 1) |->
            IF lo <= start_year + (k - 1) /\ start_year + (k - 1) <= hi THEN per ELSE Zero]

\* the distributor takes the RangeTotal item t of the request of invocation
\* i: InvalidRange when its years are out of order, else its sequence
DistributeItem(i, t, reading) ==
    /\ calls[i].pc = "calculating"
    /\ engine.pc = "idle"
    /\ calls[i].form.val[t].mode = "range"
    /\ LET req == calls[i].form.val
           range == req[t].range_data
       IN  engine' =
              IF range.start_year > range.end_year
              THEN [EngineIdle EXCEPT !.pc = "answered",
                                      !.response = FailureResponse("InvalidRange")]
              ELSE [pc |-> "distributed", range |-> range,
                    start_year |-> req.start_year, end_year |-> req.end_year,
                    out |-> DistributeRange(range, req.start_year, req.end_year, reading)]
    /\ UNCHANGED <<value, attrMin, attrMax, checkedMode, noInterest, hidden,
                   container, costResult, calls>>

\* the rest of the computation is not followed here: the POST settles with
\* one of the explored answers
DistributeAnswer(i) ==
    /\ engine.pc = "distributed"
    /\ calls[i].pc = "calculating"
    /\ \E outcome \in ServerOutcomes(calls[i].form.val) : IrrSettle(i, outcome)
    /\ engine' = EngineIdle

\* what the user types into the sub-range boxes and the total of the item
DistributeYearInputs == {<<"2", "0", "2", "4">>, <<"2", "0", "2", "6">>, <<"2", "0", "3", "0">>, <<"2", "0", "3", "1">>}
TotalAmountInputs == {<<"0">>, <<"1", "0", "0">>, <<"3", "0", "0">>}

ClickRange == \E t \in UiTypes : Between(SelectMode(t, "range"))
TypeDistributeYear ==
    \E t \in UiTypes, isStart \in BOOLEAN, s \in DistributeYearInputs :
        Between(TypeSubRange(t, FALSE, isStart, s, TRUE))
EditTotalAmount ==
    \E t \in UiTypes, s \in TotalAmountInputs : Between(EditField(TotalAmountId(t), s))

NextDistribute ==
    \/ ClickRange \/ TypeDistributeYear \/ EditTotalAmount \/ EditEngineEndYear
    \/ IrrCollectBetween
    \/ \E i \in 1..Len(calls), t \in UiTypes, reading \in DistributeReadings :
          DistributeItem(i, t, reading)
    \/ \E i \in 1..Len(calls) : DistributeAnswer(i)
    \/ \E i \in 1..Len(calls) : IrrAnswerEngine(i)
    \/ EngineRelease
SpecDistribute == Init /\ [][NextDistribute]_vars

\* the sum of the amounts out[k] over the indices k of S, as a fraction
RECURSIVE FractionSum(_, _)
FractionSum(out, S) ==
    IF S = {} THEN Zero
    ELSE LET k == CHOOSE x \in S : TRUE
             rest == FractionSum(out, S \ {k})
         IN  [num |-> out[k].num * rest.den + rest.num * out[k].den,
              den |-> out[k].den * rest.den]

\* the indices of the project years a distributed item covers
CoveredIndices(e) ==
    {k \in 1..Len(e.out) :
        /\ CoveredFrom(e.range, e.start_year) <= e.start_year + (k - 1)
        /\ e.start_year + (k - 1) <= CoveredTo(e.range, e.end_year)}

\* the sequence has span length, is zero outside the covered sub-range and
\* sums to total_amount over it
Conserved(e) ==
    /\ Len(e.out) = (e.end_year - e.start_year) + 1
    /\ \A k \in (1..Len(e.out)) \ CoveredIndices(e) : e.out[k].num = 0
    /\ LET sum == FractionSum(e.out, CoveredIndices(e))
       IN  sum.num = e.range.total_amount * sum.den

\* C12 as stated: every distributed RangeTotal item with start_year <=
\* end_year is conserved, also when its sub-range reaches beyond the span
C12_RangeTotalConservedStated ==
    engine.pc = "distributed" /\ engine.range.start_year <= engine.range.end_year =>
        Conserved(engine)

\* C12 amended: every distributed RangeTotal item with start_year <=
\* end_year whose sub-range lies within the project span has span length, is
\* zero outside the sub-range and sums to total_amount over it
C12_RangeTotalConserved ==
    /\ engine.pc = "distributed"
    /\ engine.range.start_year <= engine.range.end_year
    /\ engine.start_year <= engine.range.start_year
    /\ engine.range.end_year <= engine.end_year
    => Conserved(engine)

\* a non-zero total spread over a sub-range shorter than the project span
C12_Witness ==
    /\ engine.pc = "distributed"
    /\ engine.start_year < engine.range.start_year
    /\ engine.range.start_year < engine.range.end_year
    /\ engine.range.end_year <= engine.end_year
    /\ engine.range.total_amount > 0
    /\ engine.out[1].num = 0
    /\ engine.out[Len(engine.out)].num > 0

-----------------------------------------------------------------------------
(* Claims on the range handlers and the mode panels                        *)

\* the start year of a prefix does not exceed its end year, in the sliders
\* and in the year boxes
SlidersOrdered(prefix) ==
    ~JsGt(parseInt(value[StartRangeId(prefix)]), parseInt(value[EndRangeId(prefix)]))
BoxesOrdered(prefix) ==
    ~JsGt(parseInt(value[StartYearId(prefix)]), parseInt(value[EndYearId(prefix)]))

\* C13: after updateRangeDisplay or updateRangeFromInput has run for a
\* prefix, the start year does not exceed the end year, in its two sliders
\* and in its two year boxes
C13_OrderKept ==
    [][(DragSlider \/ TypeYear) =>
          \A t \in UiTypes : SlidersOrdered(PrefixOf(t, FALSE))'
                             /\ BoxesOrdered(PrefixOf(t, FALSE))']_vars

-----------------------------------------------------------------------------
(* Invocations of calculate_irr_main that overlap                          *)

\* the most invocations of calculate_irr_main the model follows
MaxCalls == 2

\* the answers the server has sent so far, each with the invocation it
\* answers
Delivered == IF engine.pc = "idle" THEN {} ELSE engine.response

\* calculate_irr_main() started while earlier invocations may still wait
\* for their answers: up to its first await
IrrStartOverlap ==
    /\ Len(calls) < MaxCalls
    /\ container' = Loading("collecting")
    /\ calls' = Append(calls, [pc |-> "collected", form |-> collectFormData, sent |-> FALSE])
    /\ UNCHANGED <<value, attrMin, attrMax, checkedMode, noInterest, hidden, costResult, engine>>

\* the answers explored for a request: those of ServerOutcomes and a
\* computed response whose IRR members are missing
OverlapOutcomes(req) ==
    ServerOutcomes(req)
    \cup (IF EngineValidate(req) # "" THEN {}
          ELSE {Ok(EngineResponse(EngineRun(EngineBegin(req, 2, 0)), JAbsent, JAbsent, FALSE))})

\* the POST of invocation i settles, whatever other invocations wait
OverlapSettle(i) ==
    /\ calls[i].pc = "calculating"
    /\ \E outcome \in OverlapOutcomes(calls[i].form.val) :
          /\ IrrSettle(i, outcome)
          /\ engine' = [EngineIdle EXCEPT
                           !.pc = "serving",
                           !.response = Delivered \cup {[to |-> i, outcome |-> outcome]}]

\* a form the collection rejects and two spans, so that requests differ
OverlapEndYears == {ToStr(DefaultStartYear - 1), ToStr(DefaultStartYear + 1),
                    ToStr(DefaultStartYear + 2)}
EditOverlapEndYear == \E s \in OverlapEndYears : User(EditField("end_year", s))

NextOverlap ==
    \/ EditOverlapEndYear
    \/ User(IrrStartOverlap)
    \/ \E i \in 1..Len(calls) : IrrResume(i)
    \/ \E i \in 1..Len(calls) : OverlapSettle(i)
SpecOverlap == Init /\ [][NextOverlap]_vars


\* the answer sent to invocation i
AnswerTo(i) == (CHOOSE d \in Delivered : d.to = i).outcome

\* the fetch rejected, the response was not OK, or rendering throws
Failed(outcome) == outcome.kind # "ok" \/ ~displayAPIResults(outcome.data).ok

\* what invocation i does to the container in a step that moves it on
StepOf(i) ==
    LET before == calls[i].pc
        after == calls'[i].pc
    IN  /\ <<before, after>> \in {<<"collected", "calculating">>,
                                  <<"collected", "done">>,
                                  <<"calculating", "done">>}
        /\ after = "calculating" =>
              calls[i].form.ok /\ container' = Loading("calculating")
        /\ before = "collected" /\ after = "done" =>
              ~calls[i].form.ok /\ container' = ErrorBlock(calls[i].form.msg)
        /\ before = "calculating" /\ after = "done" =>
              LET outcome == (CHOOSE d \in Delivered' : d.to = i).outcome
              IN  /\ Failed(outcome) => container'.kind = "error"
                  /\ ~Failed(outcome) => container'.kind = "results"

\* C14: an invocation of calculate_irr_main starts with the collecting
\* text, moves on only from collecting to calculating to its end or from
\* collecting to its end, ends with the error block when the collection
\* threw, the fetch rejected, the response was not OK or rendering threw,
\* and with the rendered results otherwise; once every invocation has
\* settled the container shows no loading text
C14_FinalState ==
    /\ [](Len(calls) > 0 /\ Settled => container.kind \in {"error", "results"})
    /\ [][/\ Len(calls') > Len(calls) =>
                /\ calls'[Len(calls')].pc = "collected"
                /\ container' = Loading("collecting")
          /\ \A i \in 1..Len(calls) :
                (i <= Len(calls') /\ calls'[i].pc # calls[i].pc) => StepOf(i)]_vars

\* all ways to end have happened: two invocations settled, one on a thrown
\* collection with the error block, one on an answer, and the container
\* shows an error block for a rendering that threw
C14_Witness ==
    /\ Len(calls) = 2
    /\ Settled
    /\ \E i \in 1..2 : ~calls[i].form.ok
    /\ \E d \in Delivered :
          /\ d.outcome.kind = "ok"
          /\ Failed(d.outcome)
          /\ container = ErrorBlock("TypeError")


\* what invocation i leaves in the container by itself
ShownBy(i) ==
    IF calls[i].form.ok THEN IrrShown(AnswerTo(i)) ELSE ErrorBlock(calls[i].form.msg)

\* C15: once every invocation of calculate_irr_main has settled, whatever
\* the order in which the answers arrived, the container shows the outcome
\* of the invocation started last
C15_LatestShown ==
    Len(calls) >= 2 /\ Settled => container = ShownBy(Len(calls))

-----------------------------------------------------------------------------
(* Mode panels: toggle_mode from any visibility of a type's panels         *)

\* the page with the three panels of the worked line item shown or hidden
\* in any combination, and its radio group unchecked or on yearly
InitPanels ==
    /\ value = [id \in ValueIds |-> InitialValue(id)]
    /\ attrMin = [id \in SubRangeIds |-> ToStr(2025)]
    /\ attrMax = [id \in SubRangeIds |-> ToStr(2027)]
    /\ \E c \in {"", "yearly"} :
          checkedMode = [t \in Types |-> IF t \in UiTypes THEN c ELSE "yearly"]
    /\ noInterest = TRUE
    /\ \E shown \in [Modes -> BOOLEAN] :
          hidden = [id \in PanelIds |->
                       IF \E t \in UiTypes : id = YearlyPanelId(t) THEN ~shown["yearly"]
                       ELSE IF \E t \in UiTypes : id = RangePanelId(t) THEN ~shown["range"]
                       ELSE IF \E t \in UiTypes : id = KwPanelId(t) THEN ~shown["kw_based"]
                       ELSE \A t \in Types : id # YearlyPanelId(t)]
    /\ container = Blank
    /\ costResult = CostIdle
    /\ calls = <<>>
    /\ engine = EngineIdle

ClickPanelMode == \E t \in UiTypes, m \in RadioValues : User(SelectMode(t, m))

NextPanels == ClickPanelMode \/ EditUiStartYear \/ EditUiEndYear \/ IrrCollect
SpecPanels == InitPanels /\ [][NextPanels]_vars

\* the panel of a mode of a type, and the modes whose panel is visible
ModePanelId(type, m) ==
    IF m = "yearly" THEN YearlyPanelId(type)
    ELSE IF m = "range" THEN RangePanelId(type)
    ELSE KwPanelId(type)
VisibleModes(type) == {m \in Modes : ~hidden[ModePanelId(type, m)]}

\* C16: after toggle_mode(type) has run (the checked radio of the type has
\* changed), at most one of the three panels of the type is visible and a
\* visible panel is that of the checked radio; the mode collectDataByMode
\* reads is the checked one
C16_ExclusivePanel ==
    /\ [](\A i \in 1..Len(calls) :
              calls[i].pc = "collected" /\ calls[i].form.ok =>
                  \A t \in Types : calls[i].form.val[t].mode = checkedMode[t])
    /\ [][\A t \in Types :
              checkedMode'[t] # checkedMode[t] =>
                  /\ Cardinality(VisibleModes(t)') <= 1
                  /\ \A m \in VisibleModes(t)' : m = checkedMode'[t]]_vars

\* the kw_based panel alone is visible, its radio is checked, and the form
\* has been collected with that mode
C16_Witness ==
    \E t \in UiTypes :
        /\ VisibleModes(t) = {"kw_based"}
        /\ checkedMode[t] = "kw_based"
        /\ \E i \in 1..Len(calls) :
              /\ calls[i].pc = "collected"
              /\ calls[i].form.ok
              /\ calls[i].form.val[t].mode = "kw_based"

====
